---- MODULE Spec2Model ----
(***************************************************************************)
(* Model of the cs.money page parser                                       *)
(* (price_monitoring/parsers/csmoney/parser/parser.py): the pure helpers   *)
(* (_csmoney_unix_to_datetime, _extract_next_data, _extract_skins,         *)
(* _is_cloudflare_challenge, _create_items), the fetch step _request, the  *)
(* batch builder _process_items and the retry loop CsmoneyParserImpl.parse.*)
(***************************************************************************)
EXTENDS Integers, Sequences, FiniteSets, TLC

VARIABLES
    mode,             \* which entry point this behaviour exercises
    input,            \* argument of the pure function applied
    output,           \* its result, NotCalled before the call
    pc,               \* position of parse: its await points and its exits
    max_attempts,     \* parse's max_attempts argument
    failed_attempts,  \* parse's local failed_attempts
    html,             \* parse's local html (result of the last _request)
    skins_data,       \* parse's local skins_data
    pack,             \* the pack _process_items is about to put
    acquired,         \* number of limiter.get_available calls
    requested,        \* number of _request calls
    extracted,        \* number of _extract_next_data calls
    processed,        \* arguments of the _process_items calls, in order
    queue,            \* packs handed to result_queue.put, in order
    raised,           \* exception that left parse, "none" while there is none
    attempts,         \* outcome of every finished attempt, in order
    session,          \* parse's local session
    postponed,        \* argument of the last get_available call
    request_session,  \* session passed to the last _request call
    procs,            \* locals of each of the concurrent parse invocations
    limiter,          \* the session limiter the invocations share
    conn              \* locals and call log of RabbitmqConnector.connect

vars == <<mode, input, output, pc, max_attempts, failed_attempts, html,
          skins_data, pack, acquired, requested, extracted, processed, queue,
          raised, attempts, session, postponed, request_session, procs,
          limiter, conn>>

session_vars == <<session, postponed, request_session>>
other_vars == <<procs, limiter, conn>>

(***************************************************************************)
(* Python values.  Every value is a record tagged by its type; None is     *)
(* JNull, a dict is a function from its keys to values.                    *)
(***************************************************************************)
JNull == [t |-> "null"]
JNum(n) == [t |-> "num", v |-> n]
JStr(s) == [t |-> "str", v |-> s]
JList(l) == [t |-> "list", v |-> l]
JDict(d) == [t |-> "dict", v |-> d]
EmptyDict == [k \in {} |-> JNull]

\* bool(value)
Truthy(x) ==
    CASE x.t = "null" -> FALSE
      [] x.t = "num" -> x.v # 0
      [] x.t = "str" -> x.v # ""
      [] x.t = "list" -> Len(x.v) > 0
      [] x.t = "dict" -> DOMAIN x.v # {}
      [] x.t = "text" -> Len(x.v) > 0
      [] OTHER -> TRUE

\* dict.get(key, None)
Get(d, key) == IF key \in DOMAIN d THEN d[key] ELSE JNull

\* str(value) for the values an asset id takes
str(x) == IF x.t = "num" THEN JStr(ToString(x.v)) ELSE x

\* result of a call: a returned value, or the exception it raised
Return(x) == [exc |-> "none", val |-> x]
Raise(e) == [exc |-> e, val |-> JNull]

(***************************************************************************)
(* Bounds of the inputs.                                                    *)
(***************************************************************************)
MaxStackItems == 2
MaxSkins == 2
MaxAttemptsBound == 2

(***************************************************************************)
(* Collaborators whose code is outside the parser module.                  *)
(***************************************************************************)
\* _name_patcher.patch_market_name: a pure name normalisation
patch_market_name(name) ==
    IF name = JStr("Knife | Doppler Phase 1") THEN JStr("Knife | Doppler")
    ELSE name

\* models.csmoney.CsmoneyItemCategory: a closed integer enumeration
CategoryCodes == {2, 3, 13}

\* CsmoneyItemCategory(code): the member, or ValueError for an unknown code
CsmoneyItemCategory(code) ==
    IF code.t = "num" /\ code.v \in CategoryCodes
    THEN Return([t |-> "category", v |-> code.v])
    ELSE Raise("ValueError")

\* models.csmoney.CsmoneyItem: a value object with structural equality
CsmoneyItem(name, price, asset_id, name_id, type_, float_, unlock_timestamp, overpay_float) ==
    [name |-> name, price |-> price, asset_id |-> asset_id,
     name_id |-> name_id, type_ |-> type_, float_ |-> float_,
     unlock_timestamp |-> unlock_timestamp, overpay_float |-> overpay_float]

\* datetime.fromtimestamp(ms / 1000, UTC): seconds and microseconds since epoch
fromtimestamp(ms) ==
    [t |-> "datetime", v |-> <<ms \div 1000, (ms % 1000) * 1000>>]

(***************************************************************************)
(* _csmoney_unix_to_datetime                                               *)
(***************************************************************************)
_csmoney_unix_to_datetime(unix) ==
    IF Truthy(unix) THEN fromtimestamp(unix.v) ELSE JNull

(***************************************************************************)
(* _create_items                                                           *)
(***************************************************************************)
\* the overpay / overpay_float locals
overpay_float_of(d) ==
    LET overpay == Get(d, "overpay")
    IN  IF Truthy(overpay) THEN Get(overpay.v, "float") ELSE JNull

\* first exception raised while the parent item is built, "none" if none
parent_error(d) ==
    LET overpay == Get(d, "overpay")
    IN  IF Truthy(overpay) /\ overpay.t # "dict" THEN "AttributeError"
        ELSE IF "price" \notin DOMAIN d THEN "KeyError"
        ELSE IF "assetId" \notin DOMAIN d THEN "KeyError"
        ELSE IF "nameId" \notin DOMAIN d THEN "KeyError"
        ELSE IF "type" \notin DOMAIN d THEN "KeyError"
        ELSE CsmoneyItemCategory(d["type"]).exc

\* the item built from the record itself
parent_item(d) ==
    CsmoneyItem(patch_market_name(d["fullName"]),
                d["price"],
                str(d["assetId"]),
                d["nameId"],
                CsmoneyItemCategory(d["type"]).val,
                Get(d, "float"),
                _csmoney_unix_to_datetime(Get(d, "tradeLock")),
                overpay_float_of(d))

\* exception raised while the item of one stack entry is built
stack_item_error(stack_item) ==
    IF "id" \notin DOMAIN stack_item.v THEN "KeyError"
    ELSE IF "tradeLock" \notin DOMAIN stack_item.v THEN "KeyError"
    ELSE "none"

\* the item built from one entry of stackItems
stack_item_of(d, stack_item) ==
    CsmoneyItem(patch_market_name(d["fullName"]),
                d["price"],
                str(stack_item.v["id"]),
                d["nameId"],
                CsmoneyItemCategory(d["type"]).val,
                Get(stack_item.v, "float"),
                _csmoney_unix_to_datetime(stack_item.v["tradeLock"]),
                JNull)

is_stack(d) ==
    "stackSize" \in DOMAIN d /\ "stackId" \in DOMAIN d
        /\ "stackItems" \in DOMAIN d

\* the record's name read without the test for its presence
_create_items_Unguarded(json_item) ==
    LET d == json_item.v
    IN  IF "fullName" \notin DOMAIN d THEN Raise("KeyError")
        ELSE IF parent_error(d) # "none" THEN Raise(parent_error(d))
        ELSE IF ~ is_stack(d) THEN Return(JList(<<parent_item(d)>>))
        ELSE LET stack == d["stackItems"].v
                 bad == {i \in 1..Len(stack) :
                            stack_item_error(stack[i]) # "none"}
             IN  IF bad # {}
                 THEN Raise(stack_item_error(
                          stack[CHOOSE i \in bad : \A j \in bad : i <= j]))
                 ELSE Return(JList(<<parent_item(d)>> \o
                                   [i \in 1..Len(stack) |->
                                       stack_item_of(d, stack[i])]))

_create_items(json_item) ==
    LET d == json_item.v
    IN  IF "fullName" \notin DOMAIN d THEN Return(JList(<<>>))
        ELSE IF parent_error(d) # "none" THEN Raise(parent_error(d))
        ELSE IF ~ is_stack(d) THEN Return(JList(<<parent_item(d)>>))
        ELSE LET stack == d["stackItems"].v
                 bad == {i \in 1..Len(stack) :
                            stack_item_error(stack[i]) # "none"}
             IN  IF bad # {}
                 THEN Raise(stack_item_error(
                          stack[CHOOSE i \in bad : \A j \in bad : i <= j]))
                 ELSE Return(JList(<<parent_item(d)>> \o
                                   [i \in 1..Len(stack) |->
                                       stack_item_of(d, stack[i])]))

(***************************************************************************)
(* Text.  A Python str holding a response body is a sequence of tokens:    *)
(* chunks of markup, the opening tag of the __NEXT_DATA__ script block,    *)
(* the closing script tag, and the lexemes of JSON text.                   *)
(***************************************************************************)
Text(toks) == [t |-> "text", v |-> toks]
Chunk(s) == [t |-> "chunk", v |-> s]       \* markup or prose
OpenTag(s) == [t |-> "open", v |-> s]      \* <script id="__NEXT_DATA__"
                                           \*  type="application/json" s>
CloseTag == [t |-> "close", v |-> ""]      \* </script>
P(c) == [t |-> "punct", v |-> c]           \* { } [ ] , :
LitNull == [t |-> "lit", v |-> "null"]
StrTok(s) == [t |-> "strtok", v |-> s]     \* "s"
NumTok(n) == [t |-> "numtok", v |-> n]

\* text spelled out character by character
Chars(cs) == [t |-> "chars", v |-> cs]

UpperCase ==
    <<"A", "B", "C", "D", "E", "F", "G", "H", "I", "J", "K", "L", "M",
      "N", "O", "P", "Q", "R", "S", "T", "U", "V", "W", "X", "Y", "Z">>
LowerCase ==
    <<"a", "b", "c", "d", "e", "f", "g", "h", "i", "j", "k", "l", "m",
      "n", "o", "p", "q", "r", "s", "t", "u", "v", "w", "x", "y", "z">>

\* str.lower() of one character
lower_char(c) ==
    IF \E k \in 1..Len(UpperCase) : UpperCase[k] = c
    THEN LowerCase[CHOOSE k \in 1..Len(UpperCase) : UpperCase[k] = c]
    ELSE c

\* the characters of a keyword
keyword_chars(keyword) ==
    CASE
       keyword = "just a moment" ->
          <<"j", "u", "s", "t", " ", "a", " ", "m", "o", "m", "e", "n", "t">>
      [] keyword = "cf-mitigated" ->
          <<"c", "f", "-", "m", "i", "t", "i", "g", "a", "t", "e", "d">>
      [] keyword = "cf-browser-verification" ->
          <<"c", "f", "-", "b", "r", "o", "w", "s", "e", "r", "-", "v",
            "e", "r", "i", "f", "i", "c", "a", "t", "i", "o", "n">>
      [] keyword = "cf-chl" ->
          <<"c", "f", "-", "c", "h", "l">>

\* needle in haystack, for sequences of characters
Contains(haystack, needle) ==
    \E o \in 0..(Len(haystack) - Len(needle)) :
        \A k \in 1..Len(needle) : haystack[o + k] = needle[k]

\* str.lower() of one chunk of characters: every chunk and JSON string of
\* the texts that has an upper-case letter, with its lower-case form
lower_chunk(s) ==
    CASE s = "Just a moment..." -> "just a moment..."
      [] s = "CF-Mitigated" -> "cf-mitigated"
      [] s = "CF-CHL" -> "cf-chl"
      [] s = "<!DOCTYPE html><html><head></head><body>" ->
             "<!doctype html><html><head></head><body>"
      [] s = "<!DOCTYPE html><html><head><title>" ->
             "<!doctype html><html><head><title>"
      [] s = "pageProps" -> "pageprops"
      [] s = "botInitData" -> "botinitdata"
      [] s = "skinsInfo" -> "skinsinfo"
      [] s = "fullName" -> "fullname"
      [] s = "assetId" -> "assetid"
      [] s = "nameId" -> "nameid"
      [] s = "tradeLock" -> "tradelock"
      [] s = "stackSize" -> "stacksize"
      [] s = "stackId" -> "stackid"
      [] s = "stackItems" -> "stackitems"
      [] s = "AK-47 | Redline" -> "ak-47 | redline"
      [] s = "Knife | Doppler Phase 1" -> "knife | doppler phase 1"
      [] s = "Knife | Doppler" -> "knife | doppler"
      [] OTHER -> s

\* str.lower() of the opening tag of the script block, which is then no
\* longer the tag _NEXT_DATA_PATTERN looks for
lower_open(s) ==
    CASE s = "" ->
             "<script id=\"__next_data__\" type=\"application/json\">"
      [] s = " crossorigin" ->
             "<script id=\"__next_data__\" type=\"application/json\" crossorigin>"

\* str.lower()
lower(body) ==
    [i \in 1..Len(body.v) |->
        IF body.v[i].t \in {"chunk", "strtok"}
        THEN [body.v[i] EXCEPT !.v = lower_chunk(@)]
        ELSE IF body.v[i].t = "chars"
        THEN Chars([k \in 1..Len(body.v[i].v) |-> lower_char(body.v[i].v[k])])
        ELSE IF body.v[i].t = "open"
        THEN Chunk(lower_open(body.v[i].v))
        ELSE body.v[i]]

\* the chunks of characters that contain the keyword as a substring
chunks_containing(keyword) ==
    CASE keyword = "just a moment" -> {"just a moment", "just a moment..."}
      [] OTHER -> {keyword}

_CLOUDFLARE_KEYWORDS ==
    {"just a moment", "cf-mitigated", "cf-browser-verification", "cf-chl"}

(***************************************************************************)
(* _is_cloudflare_challenge                                                *)
(***************************************************************************)
\* the keywords looked for in the text as it is, without lower()
_is_cloudflare_challenge_CaseSensitive(body) ==
    LET lowered == body.v
    IN  \E keyword \in _CLOUDFLARE_KEYWORDS :
            \E i \in 1..Len(lowered) :
                \/ /\ lowered[i].t \in {"chunk", "strtok"}
                   /\ lowered[i].v \in chunks_containing(keyword)
                \/ /\ lowered[i].t = "chars"
                   /\ Contains(lowered[i].v, keyword_chars(keyword))

_is_cloudflare_challenge(body) ==
    LET lowered == lower(body)
    IN  \E keyword \in _CLOUDFLARE_KEYWORDS :
            \E i \in 1..Len(lowered) :
                \/ /\ lowered[i].t \in {"chunk", "strtok"}
                   /\ lowered[i].v \in chunks_containing(keyword)
                \/ /\ lowered[i].t = "chars"
                   /\ Contains(lowered[i].v, keyword_chars(keyword))

(***************************************************************************)
(* json.loads: a recursive-descent parser over the lexemes.                *)
(***************************************************************************)
ParseFail == [ok |-> FALSE, val |-> JNull, next |-> 0]
ParseOk(x, n) == [ok |-> TRUE, val |-> x, next |-> n]
IsPunct(toks, i, c) == i <= Len(toks) /\ toks[i].t = "punct" /\ toks[i].v = c

RECURSIVE parse_value(_, _)
RECURSIVE parse_elements(_, _, _)
RECURSIVE parse_members(_, _, _)

parse_value(toks, i) ==
    IF i > Len(toks) THEN ParseFail
    ELSE CASE toks[i].t = "lit" -> ParseOk(JNull, i + 1)
           [] toks[i].t = "numtok" -> ParseOk(JNum(toks[i].v), i + 1)
           [] toks[i].t = "strtok" -> ParseOk(JStr(toks[i].v), i + 1)
           [] IsPunct(toks, i, "[") ->
                IF IsPunct(toks, i + 1, "]")
                THEN ParseOk(JList(<<>>), i + 2)
                ELSE parse_elements(toks, i + 1, <<>>)
           [] IsPunct(toks, i, "{") ->
                IF IsPunct(toks, i + 1, "}")
                THEN ParseOk(JDict(EmptyDict), i + 2)
                ELSE parse_members(toks, i + 1, EmptyDict)
           [] OTHER -> ParseFail

parse_elements(toks, i, acc) ==
    LET r == parse_value(toks, i)
    IN  IF ~ r.ok THEN ParseFail
        ELSE IF IsPunct(toks, r.next, ",")
             THEN parse_elements(toks, r.next + 1, Append(acc, r.val))
        ELSE IF IsPunct(toks, r.next, "]")
             THEN ParseOk(JList(Append(acc, r.val)), r.next + 1)
        ELSE ParseFail

parse_members(toks, i, acc) ==
    IF i > Len(toks) \/ toks[i].t # "strtok" \/ ~ IsPunct(toks, i + 1, ":")
    THEN ParseFail
    ELSE LET r == parse_value(toks, i + 2)
             acc2 == (toks[i].v :> r.val) @@ acc   \* the last duplicate wins
         IN  IF ~ r.ok THEN ParseFail
             ELSE IF IsPunct(toks, r.next, ",")
                  THEN parse_members(toks, r.next + 1, acc2)
             ELSE IF IsPunct(toks, r.next, "}")
                  THEN ParseOk(JDict(acc2), r.next + 1)
             ELSE ParseFail

\* json.loads(s): JSONDecodeError is a subclass of ValueError
json_loads(toks) ==
    LET r == parse_value(toks, 1)
    IN  IF r.ok /\ r.next = Len(toks) + 1 THEN Return(r.val)
        ELSE Raise("JSONDecodeError")

\* isinstance(exc, ValueError)
IsValueError(exc) == exc \in {"ValueError", "JSONDecodeError"}

(***************************************************************************)
(* _NEXT_DATA_PATTERN.search: the first opening tag that a closing tag     *)
(* follows, and the (non-greedy) text up to the first such closing tag.    *)
(***************************************************************************)
Min(S) == CHOOSE i \in S : \A j \in S : i <= j

_NEXT_DATA_PATTERN(toks) ==
    LET opens == {i \in 1..Len(toks) :
                     /\ toks[i].t = "open"
                     /\ \E j \in (i + 1)..Len(toks) : toks[j].t = "close"}
    IN  IF opens = {} THEN [matched |-> FALSE, data |-> <<>>]
        ELSE LET i == Min(opens)
                 j == Min({k \in (i + 1)..Len(toks) : toks[k].t = "close"})
             IN  [matched |-> TRUE, data |-> SubSeq(toks, i + 1, j - 1)]

(***************************************************************************)
(* _extract_next_data                                                      *)
(***************************************************************************)
_extract_next_data(body) ==
    IF body.t # "text" THEN Raise("TypeError")   \* re: expected string
    ELSE LET match == _NEXT_DATA_PATTERN(body.v)
         IN  IF ~ match.matched THEN Raise("ValueError")
             ELSE json_loads(match.data)

(***************************************************************************)
(* _extract_skins                                                          *)
(***************************************************************************)
\* value[key]
Subscript(x, key) ==
    IF x.t # "dict" THEN Raise("TypeError")
    ELSE IF key \notin DOMAIN x.v THEN Raise("KeyError")
    ELSE Return(x.v[key])

\* the four subscripts of the try block, stopping at the first exception
RECURSIVE navigate(_, _)
navigate(x, path) ==
    IF path = <<>> THEN Return(x)
    ELSE LET r == Subscript(x, Head(path))
         IN  IF r.exc # "none" THEN r ELSE navigate(r.val, Tail(path))

SkinsPath == <<"props", "pageProps", "botInitData", "skinsInfo">>

\* a skins value that is not a list taken as an unexpected structure
_extract_skins_Strict(data) ==
    LET r == navigate(data, SkinsPath)
    IN  IF r.exc = "KeyError" THEN Raise("ValueError")
        ELSE IF r.exc # "none" THEN r
        ELSE IF r.val.t # "dict" THEN Raise("AttributeError")
        ELSE LET skins == Get(r.val.v, "skins")
             IN  IF skins.t # "list" THEN Raise("ValueError")
                 ELSE Return(skins)

_extract_skins(data) ==
    LET r == navigate(data, SkinsPath)
    IN  IF r.exc = "KeyError" THEN Raise("ValueError")
        ELSE IF r.exc # "none" THEN r
        ELSE IF r.val.t # "dict" THEN Raise("AttributeError")
        ELSE LET skins == Get(r.val.v, "skins")
             IN  IF skins.t # "list" THEN Return(JList(<<>>))
                 ELSE Return(skins)

(***************************************************************************)
(* Raw records the behaviours range over.                                       *)
(***************************************************************************)
\* a key that is absent, or present with one of the given values
Opt(key, values) == {EmptyDict} \cup {key :> x : x \in values}
Req(key, values) == {key :> x : x \in values}

\* sequences over S of length at most n
SeqUpTo(S, n) == UNION {[1..k -> S] : k \in 0..n}

StackEntries ==
    {JDict(a @@ b @@ c) :
        a \in Req("id", {JNum(21)}),
        b \in Opt("float", {JStr("0.06")}),
        c \in Opt("tradeLock", {JNull, JNum(2500)})}
    \cup {JDict(("id" :> JStr("22")) @@ ("tradeLock" :> JNum(0)))}
    \cup {JDict(("float" :> JStr("0.07")) @@ ("tradeLock" :> JNull))}

\* the three stack fields with every list of entries
StackFields ==
    {("stackSize" :> JNum(Len(l) + 1)) @@ ("stackId" :> JStr("s1"))
         @@ ("stackItems" :> JList(l)) :
         l \in SeqUpTo(StackEntries, MaxStackItems)}

\* no stack fields, or not all three of them
NoStackFields ==
    {EmptyDict, ("stackItems" :> JList(<<>>)) @@ ("stackSize" :> JNum(1))}

\* records in every combination of their own fields
FlatRecords ==
    {JDict(a @@ b @@ c @@ d @@ e @@ f @@ g @@ h @@ s) :
        a \in Opt("fullName", {JStr("AK-47 | Redline"),
                               JStr("Knife | Doppler Phase 1")}),
        b \in Opt("price", {JNum(1234)}),
        c \in Req("assetId", {JNum(123), JStr("124")}),
        d \in Req("nameId", {JNum(456)}),
        e \in Req("type", {JNum(3), JNum(99)}),
        f \in Opt("float", {JStr("0.05")}),
        g \in Opt("tradeLock", {JNull, JNum(0), JNum(1500)}),
        h \in Opt("overpay", {JDict(EmptyDict),
                              JDict("float" :> JNum(14))}),
        s \in NoStackFields}

\* grouped records with every list of stack entries
StackedRecords ==
    {JDict(a @@ b @@ c @@ d @@ e @@ g @@ h @@ s) :
        a \in Opt("fullName", {JStr("Knife | Doppler Phase 1")}),
        b \in Opt("price", {JNum(1234)}),
        c \in Req("assetId", {JNum(123)}),
        d \in Req("nameId", {JNum(456)}),
        e \in Req("type", {JNum(2), JNum(99)}),
        g \in Opt("tradeLock", {JNum(1500)}),
        h \in Opt("overpay", {JDict("float" :> JNum(14))}),
        s \in StackFields}

\* records without fullName, in every combination of their other fields
NamelessRecords ==
    {JDict(b @@ c @@ e @@ h @@ s) :
        b \in Opt("price", {JNum(5)}),
        c \in Opt("assetId", {JNum(9)}),
        e \in Opt("type", {JNum(3), JNum(99)}),
        h \in Opt("overpay", {JStr("none"), JDict("float" :> JNum(14))}),
        s \in NoStackFields
               \cup {f \in StackFields : Len(f["stackItems"].v) <= 1}}

RawRecords == FlatRecords \cup StackedRecords \cup NamelessRecords

(***************************************************************************)
(* json.dumps and _build_html, as the tests build pages from payloads.     *)
(* A dict is written with its keys in the order of KeyOrder.               *)
(***************************************************************************)
KeyOrder ==
    <<"props", "pageProps", "botInitData", "skinsInfo", "skins", "fullName",
      "price", "assetId", "nameId", "type", "float", "tradeLock", "overpay",
      "stackSize", "stackId", "stackItems", "id", "0">>

RECURSIVE json_dumps(_)
RECURSIVE dumps_elements(_)
RECURSIVE dumps_members(_, _)

json_dumps(x) ==
    CASE x.t = "null" -> <<LitNull>>
      [] x.t = "num" -> <<NumTok(x.v)>>
      [] x.t = "str" -> <<StrTok(x.v)>>
      [] x.t = "list" -> <<P("[")>> \o dumps_elements(x.v) \o <<P("]")>>
      [] x.t = "dict" ->
           <<P("{")>>
           \o dumps_members(x.v, SelectSeq(KeyOrder,
                                           LAMBDA k : k \in DOMAIN x.v))
           \o <<P("}")>>

dumps_elements(l) ==
    IF l = <<>> THEN <<>>
    ELSE json_dumps(Head(l))
         \o (IF Len(l) > 1 THEN <<P(",")>> \o dumps_elements(Tail(l))
             ELSE <<>>)

dumps_members(d, keys) ==
    IF keys = <<>> THEN <<>>
    ELSE <<StrTok(Head(keys)), P(":")>> \o json_dumps(d[Head(keys)])
         \o (IF Len(keys) > 1 THEN <<P(",")>> \o dumps_members(d, Tail(keys))
             ELSE <<>>)

\* the page around an embedded payload text
page_around(data_toks) ==
    Text(<<Chunk("<!DOCTYPE html><html><head></head><body>"), OpenTag("")>>
         \o data_toks \o <<CloseTag, Chunk("</body></html>")>>)

\* the payload holding the given skinsInfo value
payload_of(skins_info) ==
    JDict("props" :> JDict("pageProps" :> JDict("botInitData" :>
        JDict("skinsInfo" :> skins_info))))

\* tests' _build_html(items)
_build_html(items) ==
    page_around(json_dumps(payload_of(JDict("skins" :> JList(items)))))

(***************************************************************************)
(* Pages and responses the behaviours range over.                               *)
(***************************************************************************)
GoodRecord ==
    JDict([fullName |-> JStr("AK-47 | Redline"), price |-> JNum(1234),
           assetId |-> JNum(123), nameId |-> JNum(456), type |-> JNum(3)])

StackRecord ==
    JDict([fullName |-> JStr("Knife | Doppler Phase 1"), price |-> JNum(99),
           assetId |-> JNum(7), nameId |-> JNum(8), type |-> JNum(2),
           float |-> JStr("0.05"), tradeLock |-> JNum(1500),
           overpay |-> JDict("float" :> JNum(14)),
           stackSize |-> JNum(2), stackId |-> JStr("s1"),
           stackItems |-> JList(<<JDict([id |-> JNum(21),
                                         float |-> JStr("0.06"),
                                         tradeLock |-> JNull])>>)])

NamelessRecord ==
    JDict([price |-> JNum(5), assetId |-> JNum(9), type |-> JNum(99)])

BadCategoryRecord ==
    JDict([fullName |-> JStr("AK-47 | Redline"), price |-> JNum(1234),
           assetId |-> JNum(125), nameId |-> JNum(456), type |-> JNum(99)])

NoPriceRecord ==
    JDict([fullName |-> JStr("AK-47 | Redline"),
           assetId |-> JNum(126), nameId |-> JNum(456), type |-> JNum(3)])

PageRecords ==
    {GoodRecord, StackRecord, NamelessRecord, BadCategoryRecord,
     NoPriceRecord}

\* payloads with the whole path and a list of skins
ListPayloads ==
    {payload_of(JDict("skins" :> JList(l))) :
        l \in SeqUpTo(PageRecords, MaxSkins)}

\* payloads with the whole path whose skins value is absent or not a list
NoListPayloads ==
    {payload_of(JDict(d)) :
        d \in {EmptyDict, "skins" :> JNull, "skins" :> JStr("none"),
               "skins" :> JDict("0" :> GoodRecord)}}

\* payloads in which a key of the path is missing
MissingKeyPayloads ==
    {JDict(EmptyDict),
     JDict("props" :> JDict(EmptyDict)),
     JDict("props" :> JDict("pageProps" :> JDict("botInitData" :>
         JDict("skins" :> JList(<<GoodRecord>>)))))}

\* payloads in which a value on the path is not a mapping
NotMappingPayloads ==
    {JNull, JList(<<>>), JNum(1),
     JDict("props" :> JNull),
     JDict("props" :> JDict("pageProps" :> JList(<<GoodRecord>>))),
     payload_of(JNull),
     payload_of(JList(<<GoodRecord>>))}

Payloads ==
    ListPayloads \cup NoListPayloads \cup MissingKeyPayloads
        \cup NotMappingPayloads

ChallengeBodies ==
    {Text(<<Chunk("<!DOCTYPE html><html><head><title>"),
            Chunk("Just a moment..."), Chunk("</title></head></html>")>>),
     Text(<<Chunk("CF-Mitigated")>>),
     Text(<<Chunk("<div id="), Chunk("cf-browser-verification"),
            Chunk(">")>>),
     Text(<<Chunk("<html>"), Chunk("CF-CHL"), Chunk("</html>")>>
          \o _build_html(<<GoodRecord>>).v)}

\* bodies in which the pattern finds no script block
NoMarkerBodies ==
    {Text(<<Chunk("<html><body>ok</body></html>")>>),
     Text(<<Chunk("<html>"), OpenTag("")>>
          \o json_dumps(payload_of(JDict("skins" :> JList(<<GoodRecord>>))))),
     Text(<<Chunk("<script>"), NumTok(1), CloseTag>>)}

\* bodies whose script block does not hold one JSON document
MalformedBodies ==
    {page_around(<<>>),
     page_around(<<Chunk("window.x = 1")>>),
     page_around(<<P("{"), StrTok("props"), P(":")>>),
     page_around(json_dumps(payload_of(JDict(EmptyDict))) \o <<P("}")>>),
     page_around(<<P("["), NumTok(1), P(","), P("]")>>)}

\* well-formed pages that are not built by _build_html
OtherBodies ==
    {Text(<<Chunk("<html>"), OpenTag(" crossorigin")>>
          \o json_dumps(payload_of(JDict("skins" :> JList(<<StackRecord>>))))
          \o <<CloseTag, Chunk("<script>"), Chunk("var a"), CloseTag>>),
     page_around(<<P("{"), StrTok("props"), P(":"), LitNull, P(","),
                   StrTok("props"), P(":")>>
                 \o json_dumps(payload_of(JDict(EmptyDict)).v["props"])
                 \o <<P("}")>>)}

Bodies ==
    {Text(<<>>)}
    \cup {page_around(json_dumps(p)) : p \in Payloads}
    \cup ChallengeBodies \cup NoMarkerBodies \cup MalformedBodies
    \cup OtherBodies

\* what one GET meets: a transport exception or a response body; or, with
\* _request replaced as in test_parse_handles_json_payload, a decoded payload
Responses ==
    {[kind |-> "exception", val |-> JStr(e)] :
        e \in {"ClientConnectionError", "TimeoutError"}}
    \cup {[kind |-> "body", val |-> b] : b \in Bodies}
    \cup {[kind |-> "decoded", val |-> p] :
            p \in {JDict(EmptyDict),
                   payload_of(JDict("skins" :> JList(<<GoodRecord>>)))}}

(***************************************************************************)
(* _request, under the catch_aiohttp decorator                             *)
(***************************************************************************)
\* proxy_http.decorators.catch_aiohttp: a transport exception is logged and
\* the decorated call returns None
catch_aiohttp(exc) == Return(JNull)

\* _request that hands a challenge page on as content
_request_NoChallengeCheck(response) ==
    IF response.kind = "exception" THEN catch_aiohttp(response.val)
    ELSE Return(response.val)

_request(response) ==
    IF response.kind = "exception" THEN catch_aiohttp(response.val)
    ELSE IF _is_cloudflare_challenge(response.val) THEN Return(JNull)
    ELSE Return(response.val)

\* the awaited fetch step: _request, or the stub that replaces it
fetch(response) ==
    IF response.kind = "decoded" THEN Return(response.val)
    ELSE _request(response)

\* how the attempt log names what the fetch met
cause_of(response) ==
    IF response.kind = "body"
    THEN IF response.val.v = <<>> THEN "empty"
         ELSE IF _is_cloudflare_challenge(response.val) THEN "challenge"
         ELSE "content"
    ELSE response.kind

(***************************************************************************)
(* _process_items up to its put                                            *)
(***************************************************************************)
\* models.csmoney.CsmoneyItemPack
CsmoneyItemPack(items) == [t |-> "pack", v |-> items]

\* the for loop appending only the first item of every record
RECURSIVE process_loop_FirstOnly(_, _)
process_loop_FirstOnly(items_data, items) ==
    IF items_data = <<>> THEN Return(CsmoneyItemPack(items))
    ELSE LET r == _create_items(Head(items_data))
         IN  IF r.exc # "none" THEN Raise(r.exc)
             ELSE process_loop_FirstOnly(
                      Tail(items_data),
                      IF r.val.v = <<>> THEN items
                      ELSE Append(items, Head(r.val.v)))

\* the for loop over items_data, from the given pack on
RECURSIVE process_loop(_, _)
process_loop(items_data, items) ==
    IF items_data = <<>> THEN Return(CsmoneyItemPack(items))
    ELSE LET r == _create_items(Head(items_data))
         IN  IF r.exc # "none" THEN Raise(r.exc)
             ELSE process_loop(Tail(items_data), items \o r.val.v)

_process_items(items_data) == process_loop(items_data.v, <<>>)

NotCalled == [exc |-> "not called", val |-> JNull]

\* values of the variables a behaviour does not use
Idle ==
    /\ pc = "idle"
    /\ max_attempts = 0
    /\ failed_attempts = 0
    /\ html = JNull
    /\ skins_data = JNull
    /\ pack = JNull
    /\ acquired = 0
    /\ requested = 0
    /\ extracted = 0
    /\ processed = <<>>
    /\ queue = <<>>
    /\ raised = "none"
    /\ attempts = <<>>
    /\ session = "none"
    /\ postponed = 0
    /\ request_session = "none"

parse_vars == <<pc, max_attempts, failed_attempts, html, skins_data, pack,
                acquired, requested, extracted, processed, queue, raised,
                attempts, session_vars>>

\* the concurrent invocations and the connector, when a behaviour has none
IdleOthers ==
    /\ procs = <<>>
    /\ limiter = 0
    /\ conn = [pc |-> "idle"]

_POSTPONE_DURATION == 25

\* sessions the limiter hands out
Sessions == {"session 1", "session 2"}

\* the session the limiter hands out on its n-th call
session_of(n) == IF n % 2 = 1 THEN "session 1" ELSE "session 2"

\* what result_queue.put does: it returns, or raises an exception of its own
PutOutcomes == {"ack", "QueueError"}

(***************************************************************************)
(* CsmoneyParserImpl.parse: one invocation.  Its steps are the loop test,  *)
(* the awaited calls and the synchronous code between them.                *)
(***************************************************************************)
InitParse ==
    /\ mode = "parse"
    /\ input = JNull
    /\ output = NotCalled
    /\ pc = "while"
    /\ max_attempts \in -1..MaxAttemptsBound
    /\ failed_attempts = 0
    /\ html = JNull
    /\ skins_data = JNull
    /\ pack = JNull
    /\ acquired = 0
    /\ requested = 0
    /\ extracted = 0
    /\ processed = <<>>
    /\ queue = <<>>
    /\ raised = "none"
    /\ attempts = <<>>
    /\ session = "none"
    /\ postponed = 0
    /\ request_session = "none"
    /\ IdleOthers

\* the result of the attempt in progress
Logged(result) == [attempts EXCEPT ![Len(attempts)].result = result]

\* the loop test written with < instead of <=
While_Strict ==
    /\ mode = "parse"
    /\ pc = "while"
    /\ pc' = IF failed_attempts < max_attempts THEN "get_available"
             ELSE "exit"
    /\ UNCHANGED <<other_vars, session_vars, mode, input, output,
                   max_attempts, failed_attempts, html, skins_data, pack,
                   acquired, requested, extracted, processed, queue, raised,
                   attempts>>

\* while failed_attempts <= max_attempts
While ==
    /\ mode = "parse"
    /\ pc = "while"
    /\ pc' = IF failed_attempts <= max_attempts THEN "get_available"
             ELSE "exit"
    /\ UNCHANGED <<other_vars, session_vars, mode, input, output,
                   max_attempts, failed_attempts, html, skins_data, pack,
                   acquired, requested, extracted, processed, queue, raised,
                   attempts>>

\* the session acquired once and kept for the later attempts
GetAvailable_Once ==
    /\ pc = "get_available"
    /\ IF session = "none"
       THEN /\ acquired' = acquired + 1
            /\ postponed' = _POSTPONE_DURATION
            /\ session' = session_of(acquired')
       ELSE UNCHANGED <<acquired, postponed, session>>
    /\ pc' = "request"
    /\ UNCHANGED <<other_vars, request_session, mode, input, output,
                   max_attempts, failed_attempts, html, skins_data, pack,
                   requested, extracted, processed, queue, raised, attempts>>

\* session = await self._limiter.get_available(_POSTPONE_DURATION)
GetAvailable ==
    /\ pc = "get_available"
    /\ acquired' = acquired + 1
    /\ postponed' = _POSTPONE_DURATION
    /\ session' = session_of(acquired')
    /\ pc' = "request"
    /\ UNCHANGED <<other_vars, request_session, mode, input, output,
                   max_attempts, failed_attempts, html, skins_data, pack,
                   requested, extracted, processed, queue, raised, attempts>>

\* what the fetch step returns for every response
fetched == [response \in Responses |-> fetch(response)]

\* html = await _request(session, url); if not html: count, continue
Request ==
    /\ pc = "request"
    /\ request_session' = session
    /\ \E response \in Responses :
        /\ requested' = requested + 1
        /\ html' = fetched[response].val
        /\ IF ~ Truthy(html')
           THEN /\ failed_attempts' = failed_attempts + 1
                /\ attempts' = Append(attempts,
                                      [cause |-> cause_of(response),
                                       result |-> "no content"])
                /\ pc' = "while"
           ELSE /\ failed_attempts' = failed_attempts
                /\ attempts' = Append(attempts,
                                      [cause |-> cause_of(response),
                                       result |-> "running"])
                /\ pc' = "extract"
    /\ UNCHANGED <<other_vars, session, postponed, mode, input, output,
                   max_attempts, skins_data, pack, acquired, extracted,
                   processed, queue, raised>>

\* the try block: _extract_next_data, _extract_skins, except ValueError
extract(content) ==
    LET next_data == _extract_next_data(content)
    IN  IF next_data.exc # "none" THEN next_data
        ELSE _extract_skins(next_data.val)

\* the try block's result for every content a fetch can hand to it
Contents == {fetch(response).val : response \in Responses}
extraction == [content \in Contents |-> extract(content)]

Extract ==
    /\ pc = "extract"
    /\ extracted' = extracted + 1
    /\ LET r == extraction[html]
       IN  IF IsValueError(r.exc)
           THEN /\ failed_attempts' = failed_attempts + 1
                /\ attempts' = Logged("extraction failed")
                /\ pc' = "while"
                /\ UNCHANGED <<skins_data, raised>>
           ELSE IF r.exc # "none"
           THEN /\ raised' = r.exc
                /\ attempts' = Logged("raised")
                /\ pc' = "raised"
                /\ UNCHANGED <<skins_data, failed_attempts>>
           ELSE /\ skins_data' = r.val
                /\ pc' = "process"
                /\ UNCHANGED <<failed_attempts, raised, attempts>>
    /\ UNCHANGED <<other_vars, session_vars, mode, input, output,
                   max_attempts, html, pack, acquired, requested, processed,
                   queue>>

\* _process_items called inside the try block
ProcessItems_InTry ==
    /\ pc = "process"
    /\ processed' = Append(processed, skins_data)
    /\ LET r == _process_items(skins_data)
       IN  IF IsValueError(r.exc)
           THEN /\ failed_attempts' = failed_attempts + 1
                /\ attempts' = Logged("extraction failed")
                /\ pc' = "while"
                /\ UNCHANGED <<pack, raised>>
           ELSE IF r.exc # "none"
           THEN /\ raised' = r.exc
                /\ attempts' = Logged("raised")
                /\ pc' = "raised"
                /\ UNCHANGED <<pack, failed_attempts>>
           ELSE /\ pack' = r.val
                /\ pc' = "put"
                /\ UNCHANGED <<raised, attempts, failed_attempts>>
    /\ UNCHANGED <<other_vars, session_vars, mode, input, output,
                   max_attempts, html, skins_data, acquired, requested,
                   extracted, queue>>

\* await _process_items(skins_data, result_queue), up to its put
ProcessItems ==
    /\ pc = "process"
    /\ processed' = Append(processed, skins_data)
    /\ LET r == _process_items(skins_data)
       IN  IF r.exc # "none"
           THEN /\ raised' = r.exc
                /\ attempts' = Logged("raised")
                /\ pc' = "raised"
                /\ UNCHANGED pack
           ELSE /\ pack' = r.val
                /\ pc' = "put"
                /\ UNCHANGED <<raised, attempts>>
    /\ UNCHANGED <<other_vars, session_vars, mode, input, output,
                   max_attempts, failed_attempts, html, skins_data, acquired,
                   requested, extracted, queue>>

\* the put without the break after it
Put_NoBreak ==
    /\ pc = "put"
    /\ queue' = Append(queue, pack)
    /\ attempts' = Logged("emitted")
    /\ pc' = "while"
    /\ UNCHANGED <<other_vars, session_vars, mode, input, output,
                   max_attempts, failed_attempts, html, skins_data, pack,
                   acquired, requested, extracted, processed, raised>>

\* the put inside a handler that counts its failure as a failed attempt
Put_Caught ==
    /\ pc = "put"
    /\ queue' = Append(queue, pack)
    /\ \E outcome \in PutOutcomes :
           IF outcome = "ack"
           THEN /\ attempts' = Logged("emitted")
                /\ pc' = "exit"
                /\ failed_attempts' = failed_attempts
           ELSE /\ attempts' = Logged("extraction failed")
                /\ pc' = "while"
                /\ failed_attempts' = failed_attempts + 1
    /\ UNCHANGED <<other_vars, session_vars, mode, input, output,
                   max_attempts, raised, html, skins_data, pack,
                   acquired, requested, extracted, processed>>

\* await result_queue.put(pack); break.  The put returns, or raises the
\* writer's exception, which parse does not catch.
Put ==
    /\ pc = "put"
    /\ queue' = Append(queue, pack)
    /\ \E outcome \in PutOutcomes :
           IF outcome = "ack"
           THEN /\ attempts' = Logged("emitted")
                /\ pc' = "exit"
                /\ raised' = raised
           ELSE /\ attempts' = Logged("put raised")
                /\ pc' = "raised"
                /\ raised' = outcome
    /\ UNCHANGED <<other_vars, session_vars, mode, input, output,
                   max_attempts, failed_attempts, html, skins_data, pack,
                   acquired, requested, extracted, processed>>

\* the final test written with >= instead of >
Exit_AtBound ==
    /\ pc = "exit"
    /\ IF failed_attempts >= max_attempts
       THEN raised' = "MaxAttemptsReachedError" /\ pc' = "raised"
       ELSE raised' = raised /\ pc' = "returned"
    /\ UNCHANGED <<other_vars, session_vars, mode, input, output,
                   max_attempts, failed_attempts, html, skins_data, pack,
                   acquired, requested, extracted, processed, queue,
                   attempts>>

Exit_NoRaise ==
    /\ pc = "exit"
    /\ raised' = raised
    /\ pc' = "returned"
    /\ UNCHANGED <<other_vars, session_vars, mode, input, output,
                   max_attempts, failed_attempts, html, skins_data, pack,
                   acquired, requested, extracted, processed, queue,
                   attempts>>

\* if failed_attempts > max_attempts: raise MaxAttemptsReachedError()
Exit ==
    /\ pc = "exit"
    /\ IF failed_attempts > max_attempts
       THEN raised' = "MaxAttemptsReachedError" /\ pc' = "raised"
       ELSE raised' = raised /\ pc' = "returned"
    /\ UNCHANGED <<other_vars, session_vars, mode, input, output,
                   max_attempts, failed_attempts, html, skins_data, pack,
                   acquired, requested, extracted, processed, queue,
                   attempts>>

Init == InitParse

Next ==
    \/ While
    \/ GetAvailable
    \/ Request
    \/ Extract
    \/ ProcessItems
    \/ Put
    \/ Exit

Spec == Init /\ [][Next]_vars

\* The event loop resumes the coroutine whenever the call it awaits has
\* returned, so a step that can be taken is taken.
SpecFair == Spec /\ WF_vars(Next)

(***************************************************************************)
(* Concurrent invocations of parse on one CsmoneyParserImpl: they share    *)
(* the limiter and the result queue; everything else is local to the      *)
(* coroutine.  A coroutine can be suspended only at an await, so taking   *)
(* each statement as a step allows every interleaving the event loop can  *)
(* produce.                                                                *)
(***************************************************************************)
MaxConcurrentAttempts == 1

Invocations == {1, 2}

\* what the GETs of the concurrent invocations meet
ConcurrentResponses ==
    {[kind |-> "exception", val |-> JStr("TimeoutError")],
     [kind |-> "body", val |-> Text(<<Chunk("CF-Mitigated")>>)],
     [kind |-> "body", val |-> Text(<<Chunk("<html><body>ok</body></html>")>>)],
     [kind |-> "body", val |-> _build_html(<<GoodRecord>>)],
     [kind |-> "body", val |-> _build_html(<<StackRecord>>)],
     [kind |-> "body", val |-> _build_html(<<BadCategoryRecord>>)]}

\* the locals of one invocation at its start
Locals(n) ==
    [pc |-> "while", max_attempts |-> n, failed_attempts |-> 0,
     session |-> "none", html |-> JNull, skins_data |-> JNull,
     pack |-> JNull, raised |-> "none", acquired |-> 0, requested |-> 0]

single_vars ==
    <<mode, input, output, pc, max_attempts, failed_attempts, html,
      skins_data, pack, acquired, requested, extracted, processed, raised,
      attempts, session_vars, conn>>

InitConcurrent ==
    /\ mode = "concurrent"
    /\ input = JNull
    /\ output = NotCalled
    /\ Idle
    /\ conn = [pc |-> "idle"]
    /\ limiter = 0
    /\ procs \in [Invocations -> {Locals(n) : n \in 0..MaxConcurrentAttempts}]

\* while failed_attempts <= max_attempts
CWhile(i) ==
    LET self == procs[i]
    IN  /\ self.pc = "while"
        /\ procs' = [procs EXCEPT ![i].pc =
                        IF self.failed_attempts <= self.max_attempts
                        THEN "get_available" ELSE "exit"]
        /\ UNCHANGED <<limiter, queue, single_vars>>

\* session = await self._limiter.get_available(_POSTPONE_DURATION)
CGetAvailable(i) ==
    LET self == procs[i]
    IN  /\ self.pc = "get_available"
        /\ limiter' = limiter + 1
        /\ procs' = [procs EXCEPT ![i].session = session_of(limiter'),
                                  ![i].acquired = self.acquired + 1,
                                  ![i].pc = "request"]
        /\ UNCHANGED <<queue, single_vars>>

\* a failed fetch counted on every invocation of the parser
CRequest_SharedCounter(i) ==
    LET self == procs[i]
    IN  /\ self.pc = "request"
        /\ \E response \in ConcurrentResponses :
               LET content == fetch(response).val
               IN  procs' =
                     IF ~ Truthy(content)
                     THEN [j \in Invocations |->
                             IF j = i
                             THEN [self EXCEPT
                                     !.html = content,
                                     !.requested = self.requested + 1,
                                     !.failed_attempts =
                                         self.failed_attempts + 1,
                                     !.pc = "while"]
                             ELSE [procs[j] EXCEPT
                                     !.failed_attempts =
                                         procs[j].failed_attempts + 1]]
                     ELSE [procs EXCEPT ![i].html = content,
                                        ![i].requested = self.requested + 1,
                                        ![i].pc = "extract"]
        /\ UNCHANGED <<limiter, queue, single_vars>>

\* html = await _request(session, url); if not html: count, continue
CRequest(i) ==
    LET self == procs[i]
    IN  /\ self.pc = "request"
        /\ \E response \in ConcurrentResponses :
               LET content == fetch(response).val
               IN  procs' =
                     IF ~ Truthy(content)
                     THEN [procs EXCEPT
                             ![i].html = content,
                             ![i].requested = self.requested + 1,
                             ![i].failed_attempts = self.failed_attempts + 1,
                             ![i].pc = "while"]
                     ELSE [procs EXCEPT ![i].html = content,
                                        ![i].requested = self.requested + 1,
                                        ![i].pc = "extract"]
        /\ UNCHANGED <<limiter, queue, single_vars>>

\* the try block and its except ValueError clause
CExtract(i) ==
    LET self == procs[i]
        r == extraction[self.html]
    IN  /\ self.pc = "extract"
        /\ procs' =
              IF IsValueError(r.exc)
              THEN [procs EXCEPT
                      ![i].failed_attempts = self.failed_attempts + 1,
                      ![i].pc = "while"]
              ELSE IF r.exc # "none"
              THEN [procs EXCEPT ![i].raised = r.exc, ![i].pc = "raised"]
              ELSE [procs EXCEPT ![i].skins_data = r.val,
                                 ![i].pc = "process"]
        /\ UNCHANGED <<limiter, queue, single_vars>>

\* await _process_items(skins_data, result_queue), up to its put
CProcessItems(i) ==
    LET self == procs[i]
        r == _process_items(self.skins_data)
    IN  /\ self.pc = "process"
        /\ procs' =
              IF r.exc # "none"
              THEN [procs EXCEPT ![i].raised = r.exc, ![i].pc = "raised"]
              ELSE [procs EXCEPT ![i].pack = r.val, ![i].pc = "put"]
        /\ UNCHANGED <<limiter, queue, single_vars>>

\* await result_queue.put(pack); break
CPut(i) ==
    LET self == procs[i]
    IN  /\ self.pc = "put"
        /\ queue' = Append(queue, [by |-> i, pack |-> self.pack])
        /\ \E outcome \in PutOutcomes :
               procs' =
                 IF outcome = "ack"
                 THEN [procs EXCEPT ![i].pc = "exit"]
                 ELSE [procs EXCEPT ![i].raised = outcome,
                                    ![i].pc = "raised"]
        /\ UNCHANGED <<limiter, single_vars>>

\* if failed_attempts > max_attempts: raise MaxAttemptsReachedError()
CExit(i) ==
    LET self == procs[i]
    IN  /\ self.pc = "exit"
        /\ procs' =
              IF self.failed_attempts > self.max_attempts
              THEN [procs EXCEPT ![i].raised = "MaxAttemptsReachedError",
                                 ![i].pc = "raised"]
              ELSE [procs EXCEPT ![i].pc = "returned"]
        /\ UNCHANGED <<limiter, queue, single_vars>>

\* one step of invocation i
Step(i) ==
    \/ CWhile(i)
    \/ CGetAvailable(i)
    \/ CRequest(i)
    \/ CExtract(i)
    \/ CProcessItems(i)
    \/ CPut(i)
    \/ CExit(i)

NextConcurrent == \E i \in Invocations : Step(i)

SpecConcurrent == InitConcurrent /\ [][NextConcurrent]_vars

(***************************************************************************)
(* Behaviours of _create_items: one call on any raw record.                *)
(***************************************************************************)
InitCreateItems ==
    /\ mode = "_create_items"
    /\ input \in RawRecords
    /\ output = NotCalled
    /\ Idle
    /\ IdleOthers

CreateItems ==
    /\ mode = "_create_items"
    /\ output = NotCalled
    /\ output' = _create_items(input)
    /\ UNCHANGED <<other_vars, mode, input, parse_vars>>

SpecCreateItems == InitCreateItems /\ [][CreateItems]_vars

\* _create_items on its own and as parse applies it to a page's records
SpecParseAndCreateItems ==
    (InitParse \/ InitCreateItems) /\ [][Next \/ CreateItems]_vars

(***************************************************************************)
(* Behaviours of _csmoney_unix_to_datetime: one call on None or on a       *)
(* millisecond count; and of _create_items, which applies it to tradeLock. *)
(***************************************************************************)
MaxMillis == 60

Millis == (0..MaxMillis) \cup {999, 1000, 1001, 1500, 2500, 1645009200}

InitUnixToDatetime ==
    /\ mode = "_csmoney_unix_to_datetime"
    /\ input \in {JNull} \cup {JNum(ms) : ms \in Millis}
    /\ output = NotCalled
    /\ Idle
    /\ IdleOthers

UnixToDatetime ==
    /\ mode = "_csmoney_unix_to_datetime"
    /\ output = NotCalled
    /\ output' = Return(_csmoney_unix_to_datetime(input))
    /\ UNCHANGED <<other_vars, mode, input, parse_vars>>

SpecUnixToDatetime ==
    (InitUnixToDatetime \/ InitCreateItems)
        /\ [][UnixToDatetime \/ CreateItems]_vars

(***************************************************************************)
(* Behaviours of _is_cloudflare_challenge, and of _request on a response   *)
(* body: one call on a text put together from pieces.                      *)
(***************************************************************************)
MaxPieces == 2

Pieces ==
    {<<"<", "t", "i", "t", "l", "e", ">", "J", "u", "s", "t", " ",
       "a", " ", "m", "o", "m", "e", "n", "t", ".", ".", ".", "<",
       "/", "t", "i", "t", "l", "e", ">">>,
     <<"C", "F", "-", "M", "i", "t", "i", "g", "a", "t", "e", "d">>,
     <<"<", "h", "t", "m", "l", ">", "<", "b", "o", "d", "y", ">",
       "o", "k", "<", "/", "b", "o", "d", "y", ">", "<", "/", "h",
       "t", "m", "l", ">">>,
     <<"J", "u", "s", "t", " ", "a", " ">>,
     <<"m", "o", "m", "e", "n", "t">>,
     <<"J", "U", "S", "T", " ", "A", " ", "M", "O", "M", "E", "N", "T">>,
     <<"c", "f", "-">>,
     <<"C", "F", "-">>,
     <<"C", "h", "l">>,
     <<"m", "i", "t", "i", "g", "a", "t", "e", "d">>,
     <<"B", "R", "O", "W", "S", "E", "R", "-", "V", "E", "R", "I",
       "F", "I", "C", "A", "T", "I", "O", "N">>,
     <<"c", "f", "_", "c", "h", "l", " ">>,
     <<"f", "-", "b", "r", "o", "w", "s", "e", "r">>}

RECURSIVE Join(_)
Join(l) == IF l = <<>> THEN <<>> ELSE Head(l) \o Join(Tail(l))

PiecedTexts == {Text(<<Chars(Join(l))>>) : l \in SeqUpTo(Pieces, MaxPieces)}

JBool(b) == [t |-> "bool", v |-> b]

InitChallenge ==
    /\ mode \in {"_is_cloudflare_challenge", "_request"}
    /\ input \in PiecedTexts
    /\ output = NotCalled
    /\ Idle
    /\ IdleOthers

IsCloudflareChallenge ==
    /\ mode = "_is_cloudflare_challenge"
    /\ output = NotCalled
    /\ output' = Return(JBool(_is_cloudflare_challenge(input)))
    /\ UNCHANGED <<other_vars, mode, input, parse_vars>>

RequestBody ==
    /\ mode = "_request"
    /\ output = NotCalled
    /\ output' = _request([kind |-> "body", val |-> input])
    /\ UNCHANGED <<other_vars, mode, input, parse_vars>>

SpecChallenge ==
    InitChallenge /\ [][IsCloudflareChallenge \/ RequestBody]_vars

(***************************************************************************)
(* RabbitmqConnector.connect: one invocation.                              *)
(***************************************************************************)
_DEFAULT_MAX_RETRIES == 5
_DEFAULT_RETRY_DELAY == 2

MaxRetriesBound == 2

\* what client.connect() does: it returns the connection, or raises
ConnectOutcomes == {"ok", "AMQPConnectionError", "OSError", "RuntimeError"}

\* except (AMQPConnectionError, OSError)
Retryable(type) == type \in {"AMQPConnectionError", "OSError"}

conn_frame == <<mode, input, output, parse_vars, procs, limiter>>

InitConnect ==
    /\ mode = "connect"
    /\ input = JNull
    /\ output = NotCalled
    /\ Idle
    /\ procs = <<>>
    /\ limiter = 0
    /\ \E n \in (-1..MaxRetriesBound) \cup {_DEFAULT_MAX_RETRIES},
          delay \in {0, 1, _DEFAULT_RETRY_DELAY} :
          conn = [pc |-> "create", max_retries |-> n, retry_delay |-> delay,
                  attempt |-> 0, clients |-> 0, client |-> 0,
                  failures |-> <<>>, sleeps |-> <<>>,
                  result |-> "none", raised |-> "none"]

\* client = RabbitMQClient(...)
CreateClient ==
    /\ conn.pc = "create"
    /\ conn' = [conn EXCEPT !.clients = @ + 1,
                            !.client = conn.clients + 1,
                            !.pc = "connect"]
    /\ UNCHANGED conn_frame

\* the retries given up one failure early
Connect_OneFewer ==
    /\ conn.pc = "connect"
    /\ \E outcome \in ConnectOutcomes :
          LET exc == [type |-> outcome, client |-> conn.client]
          IN  conn' =
                IF outcome = "ok"
                THEN [conn EXCEPT !.result = [connection_of |-> conn.client],
                                  !.pc = "returned"]
                ELSE IF Retryable(outcome)
                THEN IF conn.attempt + 1 >= conn.max_retries
                     THEN [conn EXCEPT !.attempt = @ + 1,
                                       !.failures = Append(@, exc),
                                       !.raised = exc,
                                       !.pc = "raised"]
                     ELSE [conn EXCEPT !.attempt = @ + 1,
                                       !.failures = Append(@, exc),
                                       !.pc = "sleep"]
                ELSE [conn EXCEPT !.failures = Append(@, exc),
                                  !.raised = exc,
                                  !.pc = "raised"]
    /\ UNCHANGED conn_frame

\* return await client.connect(), and the except clause up to the sleep
Connect ==
    /\ conn.pc = "connect"
    /\ \E outcome \in ConnectOutcomes :
          LET exc == [type |-> outcome, client |-> conn.client]
          IN  conn' =
                IF outcome = "ok"
                THEN [conn EXCEPT !.result = [connection_of |-> conn.client],
                                  !.pc = "returned"]
                ELSE IF Retryable(outcome)
                THEN IF conn.attempt + 1 > conn.max_retries
                     THEN [conn EXCEPT !.attempt = @ + 1,
                                       !.failures = Append(@, exc),
                                       !.raised = exc,
                                       !.pc = "raised"]
                     ELSE [conn EXCEPT !.attempt = @ + 1,
                                       !.failures = Append(@, exc),
                                       !.pc = "sleep"]
                ELSE [conn EXCEPT !.failures = Append(@, exc),
                                  !.raised = exc,
                                  !.pc = "raised"]
    /\ UNCHANGED conn_frame

\* await asyncio.sleep(retry_delay)
Sleep ==
    /\ conn.pc = "sleep"
    /\ conn' = [conn EXCEPT !.sleeps = Append(@, conn.retry_delay),
                            !.pc = "create"]
    /\ UNCHANGED conn_frame

NextConnect == CreateClient \/ Connect \/ Sleep

SpecConnect == InitConnect /\ [][NextConnect]_vars

(***************************************************************************)
(* Behaviours of _extract_next_data: one call on a decoded payload or on a *)
(* response body.                                                          *)
(***************************************************************************)
InitExtractNextData ==
    /\ mode = "_extract_next_data"
    /\ input \in Payloads \cup Bodies
    /\ output = NotCalled
    /\ Idle
    /\ IdleOthers

ExtractNextData ==
    /\ mode = "_extract_next_data"
    /\ output = NotCalled
    /\ output' = _extract_next_data(input)
    /\ UNCHANGED <<other_vars, mode, input, parse_vars>>

SpecExtractNextData == InitExtractNextData /\ [][ExtractNextData]_vars

(***************************************************************************)
(* Properties of parse.                                                    *)
(***************************************************************************)
Failed(i) == attempts[i].result \in {"no content", "extraction failed"}
AllFailed == \A i \in 1..Len(attempts) : Failed(i)

\* pages the tests' _build_html makes from records that transform
ValidPages ==
    {_build_html(l) :
        l \in SeqUpTo({GoodRecord, StackRecord, NamelessRecord}, MaxSkins)}

\* every raw item list the behaviours range over, with the page built from it
BuiltPages ==
    {[items |-> l, page |-> _build_html(l)] :
        l \in SeqUpTo(PageRecords, MaxSkins)}

RECURSIVE Concat(_)
Concat(seqs) == IF seqs = <<>> THEN <<>> ELSE Head(seqs) \o Concat(Tail(seqs))

\* C1: result_queue.put is called at most once in a run of parse; it has
\* been called exactly once when parse returns normally and not at all
\* when parse raises MaxAttemptsReachedError.
C1_PutAtMostOnce ==
    /\ Len(queue) <= 1
    /\ (pc = "returned" => Len(queue) = 1)
    /\ (raised = "MaxAttemptsReachedError" => Len(queue) = 0)

C1_Witness ==
    /\ pc = "returned"
    /\ Len(queue) = 1
    /\ failed_attempts >= 1

\* C2: with max_attempts = N >= 0 and every attempt failing, parse makes
\* exactly N+1 attempts (one acquisition and one fetch each), never more,
\* and leaves the loop only by raising MaxAttemptsReachedError, with no put.
C2_ExhaustsAfterNPlusOne ==
    (max_attempts >= 0 /\ AllFailed) =>
        /\ acquired <= max_attempts + 1
        /\ requested <= acquired
        /\ failed_attempts = Len(attempts)
        /\ pc # "returned"
        /\ (pc = "exit" => failed_attempts > max_attempts)
        /\ (pc = "raised" => raised = "MaxAttemptsReachedError")
        /\ (pc \in {"exit", "raised"} =>
                /\ Len(attempts) = max_attempts + 1
                /\ acquired = max_attempts + 1
                /\ requested = max_attempts + 1
                /\ queue = <<>>)

C2_Witness ==
    /\ raised = "MaxAttemptsReachedError"
    /\ max_attempts >= 1
    /\ acquired = max_attempts + 1
    /\ \E i \in 1..Len(attempts) : attempts[i].result = "no content"
    /\ \E i \in 1..Len(attempts) : attempts[i].result = "extraction failed"

\* C3: when the first k attempts meet a transport error or a challenge page
\* and attempt k+1 fetches a valid page, every one of the k is a no-content
\* failure, k <= max_attempts, nothing is raised unless the put itself
\* raises, and parse returns after exactly k+1 attempts and exactly one put.
C3_RetriesThenSucceeds ==
    LET n == Len(attempts)
    IN  (/\ n >= 1
         /\ \A i \in 1..(n - 1) :
                attempts[i].cause \in {"exception", "challenge"}
         /\ attempts[n].cause = "content"
         /\ attempts[n].result # "put raised"
         /\ html \in ValidPages)
        => /\ \A i \in 1..(n - 1) : attempts[i].result = "no content"
           /\ failed_attempts = n - 1
           /\ n - 1 <= max_attempts
           /\ raised = "none"
           /\ pc \in {"extract", "process", "put", "exit", "returned"}
           /\ acquired = n
           /\ requested = n
           /\ (pc \in {"exit", "returned"} => Len(queue) = 1)

C3_Witness ==
    /\ pc = "returned"
    /\ Len(attempts) = 3
    /\ attempts[1].cause = "exception"
    /\ attempts[2].cause = "challenge"
    /\ attempts[3].result = "emitted"
    /\ html = _build_html(<<GoodRecord, StackRecord>>)
    /\ Len(queue) = 1

\* C4: every extraction failure on fetched text (no script block, a payload
\* that is not the expected structure, a path that cannot be navigated) is
\* one failed attempt: failed_attempts grows by one, nothing is raised and
\* the loop goes on to its test.
C4_ExtractionFailureIsFailedAttempt ==
    [][(pc = "extract" /\ html.t = "text" /\ extract(html).exc # "none")
          => /\ failed_attempts' = failed_attempts + 1
             /\ raised' = "none"
             /\ pc' = "while"]_vars

\* C5: when extraction succeeds and transforming some record fails, the
\* error leaves parse and is not MaxAttemptsReachedError, the attempt is
\* not counted as failed, no further attempt is made and nothing is put.
C5_TransformFailurePropagates ==
    (/\ Len(processed) >= 1
     /\ \E i \in 1..Len(skins_data.v) :
            _create_items(skins_data.v[i]).exc # "none")
    => /\ pc = "raised"
       /\ raised \in {"ValueError", "KeyError"}
       /\ queue = <<>>
       /\ failed_attempts = Len(attempts) - 1
       /\ \A i \in 1..(Len(attempts) - 1) : Failed(i)
       /\ attempts[Len(attempts)].result = "raised"
       /\ acquired = Len(attempts)
       /\ requested = Len(attempts)
       /\ Len(processed) = 1

C5_Witness ==
    /\ pc = "raised"
    /\ raised = "ValueError"
    /\ Len(processed) = 1
    /\ failed_attempts >= 1
    /\ BadCategoryRecord \in {skins_data.v[i] : i \in 1..Len(skins_data.v)}

\* C6: _extract_next_data returns a decoded mapping unchanged, and returns
\* an equal mapping for a page that embeds the same data.
C6_AcceptsDictAndHtml ==
    (mode = "_extract_next_data" /\ output # NotCalled) =>
        /\ (input.t = "dict" => output = Return(input))
        /\ \A p \in Payloads :
               (p.t = "dict" /\ input = page_around(json_dumps(p)))
                   => output = Return(p)

\* C7: when the fetch step returns a decoded payload with the whole path,
\* parse treats it as content, calls the processing step exactly once with
\* the payload's skins list, and returns normally.
C7_DecodedPayloadIsProcessed ==
    LET n == Len(attempts)
    IN  (/\ n >= 1
         /\ attempts[n].cause = "decoded"
         /\ navigate(html, SkinsPath).exc = "none"
         /\ pc # "extract")
        => /\ raised = "none"
           /\ skins_data = navigate(html, SkinsPath).val.v["skins"]
           /\ (pc \in {"put", "exit", "returned"} =>
                   processed = <<skins_data>>)

\* C9: the pack put on a successful attempt holds, in the order of the
\* page's raw item list, the items of every raw record of that page and
\* nothing else.
C9_PackIsConcatenation ==
    Len(queue) >= 1 =>
        LET skins == extract(html).val.v
        IN  /\ queue[1] =
                  CsmoneyItemPack(Concat([i \in 1..Len(skins) |->
                                             _create_items(skins[i]).val.v]))
            /\ \A b \in BuiltPages : html = b.page => skins = b.items

C9_Witness ==
    /\ pc = "returned"
    /\ failed_attempts >= 1
    /\ html = _build_html(<<StackRecord, GoodRecord>>)
    /\ Len(queue) = 1
    /\ Len(queue[1].v) = 3

\* C10: after the put nothing more happens in parse: no acquisition, fetch,
\* extraction or put, and no exception.
C10_NothingAfterEmission ==
    [][Len(queue) >= 1 =>
          /\ acquired' = acquired
          /\ requested' = requested
          /\ extracted' = extracted
          /\ processed' = processed
          /\ queue' = queue
          /\ failed_attempts' = failed_attempts
          /\ raised' = "none"
          /\ pc' = "returned"]_vars

C10_Witness ==
    /\ pc = "returned"
    /\ Len(queue) = 1
    /\ max_attempts >= 1
    /\ failed_attempts = max_attempts

(***************************************************************************)
(* Properties of _create_items.                                            *)
(***************************************************************************)
\* the number of failed attempts so far
FailedCount ==
    Cardinality({i \in 1..Len(attempts) : Failed(i)})

Done == pc = "returned" /\ raised = "none" /\ Len(queue) = 1
Exhausted ==
    pc = "raised" /\ raised = "MaxAttemptsReachedError" /\ Len(queue) = 0
HardError ==
    pc = "raised" /\ raised \notin {"none", "MaxAttemptsReachedError"}

\* C11: every run of parse whose awaited calls return ends, in exactly one
\* of DONE (one put), EXHAUSTED (MaxAttemptsReachedError) or a propagated
\* error, after at most max_attempts+1 attempts; failed_attempts never
\* decreases, grows by one per failed attempt, and for max_attempts >= 0
\* never exceeds max_attempts+1.
C11_ParseTerminates ==
    /\ <>(pc \in {"returned", "raised"})
    /\ [](pc \in {"returned", "raised"} =>
              /\ Done \/ Exhausted \/ HardError
              /\ ~ (Done /\ Exhausted)
              /\ ~ (Done /\ HardError)
              /\ ~ (Exhausted /\ HardError))
    /\ [](/\ failed_attempts = FailedCount
          /\ acquired = Len(attempts) + (IF pc = "request" THEN 1 ELSE 0)
          /\ (max_attempts >= 0 =>
                  /\ Len(attempts) <= max_attempts + 1
                  /\ failed_attempts <= max_attempts + 1)
          /\ (max_attempts < 0 => Len(attempts) = 0))
    /\ [][failed_attempts' \in {failed_attempts, failed_attempts + 1}]_vars

C11_Witness ==
    /\ HardError
    /\ raised = "QueueError"
    /\ max_attempts = MaxAttemptsBound
    /\ failed_attempts = max_attempts
    /\ Len(attempts) = max_attempts + 1

\* C12: when the put raises, that exception leaves parse as it is: it is
\* the last thing the run does, failed_attempts is not incremented for it,
\* put has been called once and no further attempt starts.
C12_PutFailurePropagates ==
    /\ [][pc = "put" =>
             /\ queue' = Append(queue, pack)
             /\ \/ pc' = "exit" /\ raised' = "none"
                \/ /\ pc' = "raised"
                   /\ raised' \in PutOutcomes \ {"ack"}
                   /\ attempts' = Logged("put raised")
             /\ failed_attempts' = failed_attempts
             /\ acquired' = acquired
             /\ requested' = requested]_vars
    /\ []((Len(attempts) >= 1
             /\ attempts[Len(attempts)].result = "put raised") =>
              /\ pc = "raised"
              /\ raised \in PutOutcomes \ {"ack"}
              /\ \A i \in 1..(Len(attempts) - 1) : Failed(i)
              /\ failed_attempts = Len(attempts) - 1
              /\ Len(queue) = 1
              /\ acquired = Len(attempts)
              /\ requested = Len(attempts))
    /\ [][pc = "raised" => UNCHANGED vars]_vars

C12_Witness ==
    /\ pc = "raised"
    /\ raised = "QueueError"
    /\ attempts[Len(attempts)].result = "put raised"
    /\ failed_attempts = 1
    /\ max_attempts = 1
    /\ Len(queue) = 1
    /\ Len(queue[1].v) >= 1

\* the items of the page invocation i fetched last
PageItems(i) ==
    LET skins == extraction[procs[i].html].val.v
    IN  Concat([k \in 1..Len(skins) |-> _create_items(skins[k]).val.v])

\* the puts invocation i made
PutsOf(i) == SelectSeq(queue, LAMBDA e : e.by = i)

\* C13: under every interleaving of invocations sharing the limiter, a
\* step of one invocation changes no local of another; each invocation's
\* failed_attempts counts its own failed attempts only; an invocation that
\* returns has made exactly one put, of the items of the page it fetched
\* itself, and one that raised MaxAttemptsReachedError has made none.
C13_InvocationsIndependent ==
    /\ [][\A i \in Invocations :
             procs'[i] # procs[i] =>
                 \A j \in Invocations \ {i} : procs'[j] = procs[j]]_vars
    /\ [](\A i \in Invocations :
             LET self == procs[i]
             IN  /\ self.failed_attempts <= self.requested
                 /\ self.requested <= self.acquired
                 /\ self.acquired <= self.max_attempts + 1
                 /\ Len(PutsOf(i)) <= 1
                 /\ (self.pc = "returned" =>
                        /\ self.failed_attempts = self.requested - 1
                        /\ Len(PutsOf(i)) = 1
                        /\ PutsOf(i)[1].pack = CsmoneyItemPack(PageItems(i)))
                 /\ (self.raised = "MaxAttemptsReachedError" =>
                        /\ self.failed_attempts = self.requested
                        /\ self.requested = self.max_attempts + 1
                        /\ PutsOf(i) = <<>>)
                 /\ (self.raised \in {"ValueError", "KeyError"} =>
                        /\ self.failed_attempts = self.requested - 1
                        /\ PutsOf(i) = <<>>))
    /\ [](limiter = procs[1].acquired + procs[2].acquired)

C13_Witness ==
    /\ mode = "concurrent"
    /\ procs[1].pc = "returned"
    /\ procs[1].failed_attempts = 1
    /\ procs[1].html = _build_html(<<StackRecord>>)
    /\ procs[2].pc = "raised"
    /\ procs[2].raised = "MaxAttemptsReachedError"
    /\ procs[2].max_attempts = 1
    /\ Len(queue) = 1
    /\ procs[1].session = "session 2"

Nameless(record) == "fullName" \notin DOMAIN record.v

\* a raw item list whose records all lack fullName or transform
Transformable(skins) ==
    \A k \in 1..Len(skins.v) :
        Nameless(skins.v[k]) \/ _create_items(skins.v[k]).exc = "none"

\* C14: for every raw record without fullName, whatever its other fields,
\* _create_items returns an empty list and raises nothing; in parse such a
\* record adds no item to the pack and does not make the attempt fail.
C14_NamelessRecordGivesNothing ==
    /\ []((mode = "_create_items" /\ output # NotCalled /\ Nameless(input))
             => output = Return(JList(<<>>)))
    /\ [][(mode = "parse" /\ pc = "process" /\ Transformable(skins_data)) =>
             LET named == SelectSeq(skins_data.v, LAMBDA r : ~ Nameless(r))
             IN  /\ pc' = "put"
                 /\ raised' = "none"
                 /\ failed_attempts' = failed_attempts
                 /\ attempts' = attempts
                 /\ pack' = CsmoneyItemPack(
                                Concat([k \in 1..Len(named) |->
                                           _create_items(named[k]).val.v]))
          ]_vars

C14_Witness ==
    /\ mode = "parse"
    /\ pc = "returned"
    /\ html = _build_html(<<NamelessRecord, GoodRecord>>)
    /\ failed_attempts = 0
    /\ Len(queue) = 1
    /\ Len(queue[1].v) = 1

\* the instant ms milliseconds after the epoch, as seconds and microseconds
Instant(ms) == [t |-> "datetime", v |-> <<ms \div 1000, (ms % 1000) * 1000>>]

\* C15: _csmoney_unix_to_datetime gives, for every millisecond count T,
\* zero included, the instant T/1000 seconds after the epoch, and gives no
\* timestamp only for an absent value; the unlock_timestamp of an item is
\* absent exactly when its record has no lock value.
C15_UnixToDatetime ==
    /\ (mode = "_csmoney_unix_to_datetime" /\ output # NotCalled) =>
           /\ (input.t = "num" => output = Return(Instant(input.v)))
           /\ (output = Return(JNull) <=> input = JNull)
    /\ (mode = "_create_items" /\ output # NotCalled
           /\ output.exc = "none" /\ output.val.v # <<>>) =>
           (output.val.v[1].unlock_timestamp = JNull
               <=> Get(input.v, "tradeLock") = JNull)

\* characters a and b are the same letter in either case, or the same
SameLetter(a, b) ==
    \/ a = b
    \/ \E k \in 1..Len(UpperCase) :
           {a, b} = {UpperCase[k], LowerCase[k]}

\* some marker occurs in the text, letters compared without regard to case
HasMarker(body) ==
    \E keyword \in _CLOUDFLARE_KEYWORDS :
        LET marker == keyword_chars(keyword)
            text == body.v[1].v
        IN  \E o \in 0..(Len(text) - Len(marker)) :
                \A k \in 1..Len(marker) : SameLetter(text[o + k], marker[k])

\* C16: _is_cloudflare_challenge is true exactly for the texts in which one
\* of the four markers occurs, case disregarded; a text with none of them
\* is not flagged; _request gives None, not an exception, for a flagged
\* body and the body itself otherwise.
C16_ChallengeDetection ==
    /\ (mode = "_is_cloudflare_challenge" /\ output # NotCalled) =>
           output = Return(JBool(HasMarker(input)))
    /\ (mode = "_request" /\ output # NotCalled) =>
           output = IF HasMarker(input) THEN Return(JNull) ELSE Return(input)

C16_Witness ==
    /\ mode = "_request"
    /\ input = Text(<<Chars(Join(<<<<"C", "F", "-">>,
                                   <<"C", "h", "l">>>>))>>)
    /\ output = Return(JNull)

\* C18: every attempt is one get_available(_POSTPONE_DURATION) followed by
\* one fetch with the session just acquired: acquisitions and fetches
\* alternate, acquisition first, their counts are equal whenever an attempt
\* has ended, and between attempts parse does nothing but test the loop
\* condition.
C18_AcquireThenFetch ==
    /\ [](/\ acquired = requested + (IF pc = "request" THEN 1 ELSE 0)
          /\ requested = Len(attempts)
          /\ (acquired >= 1 =>
                  postponed = 25 /\ session \in Sessions)
          /\ (requested >= 1 /\ pc # "request" => request_session = session))
    /\ [][/\ (acquired' # acquired =>
                 /\ pc = "get_available" /\ pc' = "request"
                 /\ acquired' = acquired + 1
                 /\ requested' = requested)
          /\ (requested' # requested =>
                 /\ pc = "request"
                 /\ requested' = requested + 1
                 /\ acquired' = acquired
                 /\ request_session' = session)
          /\ (pc = "while" =>
                 /\ pc' = IF failed_attempts <= max_attempts
                          THEN "get_available" ELSE "exit"
                 /\ UNCHANGED <<acquired, requested, attempts>>)
          /\ (pc = "get_available" => acquired' = acquired + 1)]_vars

C18_Witness ==
    /\ pc = "returned"
    /\ acquired = 3
    /\ requested = 3
    /\ postponed = _POSTPONE_DURATION
    /\ session = "session 1"
    /\ request_session = "session 1"
    /\ failed_attempts = 2

\* pages with the whole path whose skins value is absent, not a list, or []
EmptySkinsPages ==
    {page_around(json_dumps(p)) :
        p \in NoListPayloads \cup {payload_of(JDict("skins" :> JList(<<>>)))}}

\* C19: when the fetched page has the path down to skinsInfo and its skins
\* value is absent, not a list or an empty list, extraction gives an empty
\* list, the attempt is not a failed one, and parse puts one empty pack and
\* returns (the put raising aside).
C19_EmptySkinsGiveEmptyPack ==
    LET n == Len(attempts)
    IN  (/\ n >= 1
         /\ html \in EmptySkinsPages
         /\ attempts[n].result # "put raised")
        => /\ extraction[html] = Return(JList(<<>>))
           /\ raised = "none"
           /\ failed_attempts = n - 1
           /\ failed_attempts <= max_attempts
           /\ pc \in {"extract", "process", "put", "exit", "returned"}
           /\ (pc \in {"process", "put", "exit", "returned"} =>
                  skins_data = JList(<<>>))
           /\ (pc \in {"put", "exit", "returned"} =>
                  pack = CsmoneyItemPack(<<>>))
           /\ (pc \in {"exit", "returned"} =>
                  queue = <<CsmoneyItemPack(<<>>)>>)
           /\ (pc \in {"extract", "process", "put"} => queue = <<>>)

C19_Witness ==
    /\ pc = "returned"
    /\ html = page_around(json_dumps(
                  payload_of(JDict("skins" :> JStr("none")))))
    /\ failed_attempts = 1
    /\ queue = <<CsmoneyItemPack(<<>>)>>

\* C20: connect returns the connection of the first client whose connect()
\* succeeds; with max_retries >= 0 and every attempt failing with
\* AMQPConnectionError or OSError it makes max_retries+1 attempts, each on
\* a new client, sleeps retry_delay after every failure but the last, and
\* raises the last attempt's exception; any other exception leaves
\* connect at once.
C20_BoundedRetry ==
    LET n == Len(conn.failures)
        retried == \A k \in 1..n : Retryable(conn.failures[k].type)
    IN  mode = "connect" =>
        /\ \A k \in 1..n : conn.failures[k].client = k
        /\ \A k \in 1..(n - 1) : Retryable(conn.failures[k].type)
        /\ \A k \in 1..Len(conn.sleeps) : conn.sleeps[k] = conn.retry_delay
        /\ conn.clients =
               n + (IF conn.pc \in {"connect", "returned"} THEN 1 ELSE 0)
        /\ (conn.pc = "returned" =>
               /\ conn.result = [connection_of |-> n + 1]
               /\ conn.raised = "none"
               /\ Len(conn.sleeps) = n
               /\ retried)
        /\ (conn.pc = "raised" =>
               /\ n >= 1
               /\ conn.raised = conn.failures[n]
               /\ conn.result = "none"
               /\ Len(conn.sleeps) = n - 1)
        /\ (conn.max_retries >= 0 /\ retried =>
               /\ n <= conn.max_retries + 1
               /\ conn.clients <= conn.max_retries + 1
               /\ (conn.pc = "raised" <=> n = conn.max_retries + 1))
        /\ (n >= 1 /\ ~ Retryable(conn.failures[n].type) =>
               conn.pc = "raised")

C20_Witness ==
    /\ mode = "connect"
    /\ conn.pc = "raised"
    /\ conn.max_retries = 2
    /\ conn.retry_delay = 2
    /\ conn.clients = 3
    /\ conn.sleeps = <<2, 2>>
    /\ conn.raised = [type |-> "OSError", client |-> 3]
    /\ conn.failures[1].type = "AMQPConnectionError"

\* the entries of stackItems
StackOf(d) == d["stackItems"].v

\* C8: a grouped record with N stack entries, whose own fields and whose
\* entries' ids are all there, gives N+1 items, the parent first and the
\* entries in order; no item after the first has overpay_float, and each
\* entry's asset id, wear and unlock timestamp are its own, the timestamp
\* being absent when the entry has no lock.
C8_StackExpansion ==
    (/\ mode = "_create_items"
     /\ output # NotCalled
     /\ "fullName" \in DOMAIN input.v
     /\ is_stack(input.v)
     /\ parent_error(input.v) = "none"
     /\ \A i \in 1..Len(StackOf(input.v)) :
            "id" \in DOMAIN StackOf(input.v)[i].v)
    => /\ output.exc = "none"
       /\ Len(output.val.v) = Len(StackOf(input.v)) + 1
       /\ output.val.v[1] = parent_item(input.v)
       /\ \A i \in 1..Len(StackOf(input.v)) :
              LET entry == StackOf(input.v)[i].v
                  item == output.val.v[i + 1]
              IN  /\ item.overpay_float = JNull
                  /\ item.asset_id = str(entry["id"])
                  /\ item.float_ = Get(entry, "float")
                  /\ item.unlock_timestamp =
                         _csmoney_unix_to_datetime(Get(entry, "tradeLock"))

====
